---- MODULE Spec2Model ----
(***************************************************************************)
(* The image gallery carousel of the site script (createImageGallery).     *)
(*                                                                         *)
(* The DOM the carousel reads is part of the state: which elements the     *)
(* container holds, the "hidden-img" class of every slide, and the text of *)
(* the counter (#gallery-index) and caption (.gallery-caption) regions.    *)
(* A click handler runs to completion as one step; a TypeError raised in   *)
(* the middle of a handler ends it there, keeping the writes made so far.  *)
(***************************************************************************)
EXTENDS Integers, Sequences, FiniteSets, TLC

\* ---------------------------------------------------------------- bounds
\* Largest number of .gallery-img slides in a container (one more than the
\* caption table holds, so that a slide without a caption entry exists).
MaxSlides == 8
\* Largest number of slides in the runs that call showImage directly.
MaxShowSlides == 3
\* Largest number of slides in each of two galleries on one page.
MaxTwoSlides == 2
\* Longest value typed into #full-name.
MaxNameLen == 2
\* Most requests in flight at once when no submit button can be disabled.
MaxPending == 1

\* ------------------------------------------------------ program constants
\* const catNames = [...]
catNames == <<"Oliver", "Zizi", "Nancy", "Sophia", "Mr Onions", "DaFu", "Bertie">>

\* digits.length === 11;  if (digits.length > 11) digits = digits.slice(0, 11)
PhoneDigits == 11
\* if (digits.length > 5): a space after the first 5 digits
PhoneSplit == 5

\* The messages renderFormStatus is called with.
PhoneMsg == "Please enter your full phone number (11 digits)."
SlotMsg == "Please select at least one preferred time slot or choose No Preference."
SuccessMsg == "Thank you! Your message has been sent."
ErrorMsg == "Something went wrong sending your message. Please try again."

\* Labels the markup may give the submit button (an icon-only button has none).
SubmitLabels == {"Send Enquiry", ""}

\* Text the page's markup may hold in the counter and caption regions.
MarkupIndexTexts == {"", "1 / 7"}
MarkupCaptionTexts == {"", "Meet Oliver"}

VARIABLES
    container,       \* document.querySelector(containerSelector) finds an element
    images,          \* images[i+1] = TRUE iff slide i carries the class hidden-img
    prevBtn,         \* the container holds a .gallery-left-arrow
    nextBtn,         \* the container holds a .gallery-right-arrow
    galleryIndexEl,  \* the container holds a #gallery-index
    galleryCaption,  \* the container holds a .gallery-caption
    indexText,       \* galleryIndexEl.textContent
    captionText,     \* galleryCaption.textContent
    currentIndex,    \* the closure's cursor; -1 before the closure exists
    listeners,       \* the click listeners are attached to prevBtn and nextBtn
    error,           \* what the last operation raised: "none" or "TypeError"
    phase,           \* "loaded" (script not run yet), "ready", "inert"
    op,              \* the last operation run
    call,            \* <<newIndex>> if the last operation called showImage, else <<>>
    lastIndex,       \* currentIndex before the last operation
    markup           \* the DOM as the page was loaded (never changes)

\* Two galleries on one page, each constructed on its own container.
VARIABLES
    page,            \* page[c]: the elements inside container c (slides' hidden-img
                     \* markers, whether it holds a #gallery-index, the two texts)
    inst,            \* inst[i]: the closure of the instance constructed on
                     \* container i (currentIndex, -1 before it exists; listeners)
    actor            \* the last activation: which instance, which control, the
                     \* cursor it started from

galleryVars == <<container, images, prevBtn, nextBtn, galleryIndexEl,
                 galleryCaption, indexText, captionText, currentIndex, listeners,
                 error, phase, op, call, lastIndex, markup>>

twoVars == <<page, inst, actor>>

\* The enquiry form (#enquiry-form).  A character of a field value is "d" (a
\* digit), "a" (a letter), "x" (any other non-digit, non-space) or " ".
VARIABLES
    telInput,        \* the form holds a #tel field
    telValue,        \* #tel.value, a sequence of characters
    fullName,        \* #full-name.value, a sequence of characters
    customValidity,  \* per field, whether a custom validity message is set
    checked,         \* .checked of #morning, #afternoon, #evening, #none
    noneInGroup,     \* #none carries name="time-slot"
    defaults,        \* the checkedness the markup gives the four boxes
    submitBtn,       \* button[type='submit']: present, innerText, disabled
    statusText,      \* .form-status textContent
    pending,         \* requests in flight: what each one's handlers closed over
    nameTyped,       \* the user has typed into #full-name
    fev              \* the last form event and what it did

formVars == <<telInput, telValue, fullName, customValidity, checked,
              noneInGroup, defaults, submitBtn, statusText, pending,
              nameTyped, fev>>

\* The ".only-one" checkbox group: the boxes document.querySelectorAll(".only-one")
\* returns, in document order.
VARIABLES
    onlyOne,         \* .checked of each box of the group
    onlyMarkup,      \* the checkedness the markup gives each box
    oev              \* the last toggle of a box of the group

onlyVars == <<onlyOne, onlyMarkup, oev>>

\* What the single gallery's operations leave alone.
others == <<twoVars, formVars, onlyVars>>

vars == <<galleryVars, others>>

dom == <<container, prevBtn, nextBtn, galleryIndexEl, galleryCaption, markup>>

\* -------------------------------------------------------------- helpers
Max(a, b) == IF a >= b THEN a ELSE b

\* Every marking of n slides with the hidden-img class.
Markings(n) == [1..n -> BOOLEAN]

\* images.findIndex((img) => !img.classList.contains("hidden-img"))
findIndex(imgs) ==
    IF \E i \in 1..Len(imgs) : ~imgs[i]
    THEN (CHOOSE i \in 1..Len(imgs) :
            ~imgs[i] /\ \A j \in 1..(i - 1) : imgs[j]) - 1
    ELSE -1

\* let currentIndex = Math.max(images.findIndex(...), 0)
InitialIndex_NoClamp(imgs) == findIndex(imgs)
InitialIndex(imgs) == Max(findIndex(imgs), 0)

\* images.forEach((img, index) => img.classList.toggle("hidden-img", index !== currentIndex))
ToggleAll_ShowOnly(imgs, cur) ==
    [i \in 1..Len(imgs) |-> IF i - 1 = cur THEN FALSE ELSE imgs[i]]
ToggleAll_Inverted(imgs, cur) == [i \in 1..Len(imgs) |-> (i - 1) = cur]
ToggleAll(imgs, cur) == [i \in 1..Len(imgs) |-> (i - 1) # cur]

\* catNames[index] ?? ""
CatName_NoFallback(index) ==
    IF index + 1 \in 1..Len(catNames) THEN catNames[index + 1] ELSE "undefined"
CatName(index) ==
    IF index + 1 \in 1..Len(catNames) THEN catNames[index + 1] ELSE ""

\* `Meet ${catNames[index] ?? ""}`
CaptionFor(index) == "Meet " \o CatName(index)

\* updateCaption(): the caption text after the call, given the text before
updateCaption(text, index) == IF galleryCaption THEN CaptionFor(index) ELSE text

\* `${currentIndex + 1} / ${images.length}`
CounterFor_ZeroBased(cur, n) == ToString(cur) \o " / " \o ToString(n)
CounterFor(cur, n) == ToString(cur + 1) \o " / " \o ToString(n)

\* if (!container) return; ... if (!images.length || !prevBtn || !nextBtn) return;
Declines_NextUnchecked == ~container \/ Len(images) = 0 \/ ~prevBtn
Declines == ~container \/ Len(images) = 0 \/ ~prevBtn \/ ~nextBtn

\* if (newIndex < 0 || newIndex >= images.length || newIndex === currentIndex) return;
Rejects_OffByOne(newIndex) ==
    newIndex < 0 \/ newIndex > Len(images) \/ newIndex = currentIndex
Rejects(newIndex) ==
    newIndex < 0 \/ newIndex >= Len(images) \/ newIndex = currentIndex

\* images[currentIndex].classList.add("hidden-img");
\* images[newIndex].classList.remove("hidden-img");
Swap_KeepOld(imgs, cur, new) == [imgs EXCEPT ![new + 1] = FALSE]
Swap(imgs, cur, new) == [imgs EXCEPT ![cur + 1] = TRUE, ![new + 1] = FALSE]

\* () => currentIndex > 0 && showImage(currentIndex - 1): the call it makes
prevCall_Wraps(cur, n) == IF cur > 0 THEN <<cur - 1>> ELSE <<n - 1>>
prevCall(cur, n) == IF cur > 0 THEN <<cur - 1>> ELSE <<>>

\* () => currentIndex < images.length - 1 && showImage(currentIndex + 1)
nextCall(cur, n) == IF cur < n - 1 THEN <<cur + 1>> ELSE <<>>

\* ---------------------------------------------------------- idle subsystems
\* A page without a second gallery.
TwoIdle ==
    /\ page = <<>>
    /\ inst = <<>>
    /\ actor = [inst |-> 0, kind |-> "none", from |-> -1]

\* A page without an enquiry form.
NoEvent == [kind |-> "none"]

NoneChecked == [morning |-> FALSE, afternoon |-> FALSE, evening |-> FALSE,
                none |-> FALSE]

FormIdle ==
    /\ telInput = FALSE
    /\ telValue = <<>>
    /\ fullName = <<>>
    /\ customValidity = [name |-> FALSE, tel |-> FALSE]
    /\ checked = NoneChecked
    /\ noneInGroup = FALSE
    /\ defaults = NoneChecked
    /\ submitBtn = [present |-> FALSE, innerText |-> "", disabled |-> FALSE]
    /\ statusText = ""
    /\ pending = <<>>
    /\ nameTyped = FALSE
    /\ fev = NoEvent

\* A page without an ".only-one" box.
OnlyIdle ==
    /\ onlyOne = <<>>
    /\ onlyMarkup = <<>>
    /\ oev = [kind |-> "none", index |-> 0, before |-> <<>>]

OthersIdle == TwoIdle /\ FormIdle /\ OnlyIdle

\* A page without a gallery container: createImageGallery has nothing to query.
GalleryIdle ==
    /\ container = FALSE
    /\ images = <<>>
    /\ prevBtn = FALSE /\ nextBtn = FALSE
    /\ galleryIndexEl = FALSE /\ galleryCaption = FALSE
    /\ indexText = "" /\ captionText = ""
    /\ currentIndex = -1
    /\ lastIndex = -1
    /\ listeners = FALSE
    /\ error = "none"
    /\ phase = "loaded"
    /\ op = "load"
    /\ call = <<>>
    /\ markup = [images |-> <<>>, indexText |-> "", captionText |-> ""]

\* ------------------------------------------------------------ initial DOM
\* The page as loaded, with at most maxN slides, marked hidden or not in any
\* way.  Without a container there is nothing to query inside.
InitWith(maxN) ==
    /\ container \in BOOLEAN
    /\ IF container
       THEN /\ \E n \in 0..maxN : images \in Markings(n)
            /\ prevBtn \in BOOLEAN
            /\ nextBtn \in BOOLEAN
            /\ galleryIndexEl \in BOOLEAN
            /\ galleryCaption \in BOOLEAN
            /\ indexText \in (IF galleryIndexEl THEN MarkupIndexTexts ELSE {""})
            /\ captionText \in (IF galleryCaption THEN MarkupCaptionTexts ELSE {""})
       ELSE /\ images = <<>>
            /\ prevBtn = FALSE /\ nextBtn = FALSE
            /\ galleryIndexEl = FALSE /\ galleryCaption = FALSE
            /\ indexText = "" /\ captionText = ""
    /\ currentIndex = -1
    /\ lastIndex = -1
    /\ listeners = FALSE
    /\ error = "none"
    /\ phase = "loaded"
    /\ op = "load"
    /\ call = <<>>
    /\ markup = [images |-> images, indexText |-> indexText,
                 captionText |-> captionText]
    /\ OthersIdle

Init == InitWith(MaxSlides)

InitShow == InitWith(MaxShowSlides)

\* ------------------------------------------------------------- operations
\* createImageGallery(".gallery-container"), run once when the script loads.
createImageGallery ==
    /\ phase = "loaded"
    /\ op' = "construct"
    /\ call' = <<>>
    /\ lastIndex' = currentIndex
    /\ error' = "none"
    /\ IF Declines
       THEN /\ phase' = "inert"
            /\ UNCHANGED <<images, indexText, captionText, currentIndex, listeners>>
       ELSE /\ currentIndex' = InitialIndex(images)
            /\ images' = ToggleAll(images, InitialIndex(images))
            /\ captionText' = updateCaption(captionText, InitialIndex(images))
            /\ listeners' = TRUE
            /\ phase' = "ready"
            /\ UNCHANGED indexText
    /\ UNCHANGED dom
    /\ UNCHANGED others

\* showImage(newIndex).  With no #gallery-index the counter write dereferences
\* null: the TypeError ends the handler after the slides and the cursor were
\* updated and before updateCaption() runs.
showImage(newIndex) ==
    IF Rejects(newIndex)
    THEN /\ error' = "none"
         /\ UNCHANGED <<images, currentIndex, indexText, captionText>>
    ELSE /\ images' = Swap(images, currentIndex, newIndex)
         /\ currentIndex' = newIndex
         /\ IF galleryIndexEl
            THEN /\ indexText' = CounterFor(newIndex, Len(images))
                 /\ captionText' = updateCaption(captionText, newIndex)
                 /\ error' = "none"
            ELSE /\ error' = "TypeError"
                 /\ UNCHANGED <<indexText, captionText>>

\* The handler's body `guard && showImage(target)` for the call it makes.
Handle(c) ==
    /\ call' = c
    /\ lastIndex' = currentIndex
    /\ IF c = <<>>
       THEN /\ error' = "none"
            /\ UNCHANGED <<images, currentIndex, indexText, captionText>>
       ELSE showImage(c[1])
    /\ UNCHANGED <<listeners, phase>>
    /\ UNCHANGED dom
    /\ UNCHANGED others

\* click on .gallery-left-arrow
ClickPrev ==
    /\ listeners
    /\ op' = "prev"
    /\ Handle(prevCall(currentIndex, Len(images)))

\* click on .gallery-right-arrow
ClickNext ==
    /\ listeners
    /\ op' = "next"
    /\ Handle(nextCall(currentIndex, Len(images)))

\* showImage applied to any index, in range or not.
CallShowImage ==
    /\ phase = "ready"
    /\ \E t \in -1..(Len(images) + 1) :
          /\ op' = "showImage"
          /\ Handle(<<t>>)

Next == createImageGallery \/ ClickPrev \/ ClickNext

Spec == Init /\ [][Next]_vars

NextShow == createImageGallery \/ CallShowImage

SpecShow == InitShow /\ [][NextShow]_vars

\* ------------------------------------------------- two galleries, one page
\* container.querySelector / container.querySelectorAll: the search is scoped
\* to the instance's own container.
QueryIn_Document(c) == 1
QueryIn(c) == c

Instances == 1..2

\* The page as loaded: two containers, each with both arrows and a caption
\* region, any marking of up to MaxTwoSlides slides, with or without a counter.
InitTwo ==
    /\ GalleryIdle
    /\ FormIdle
    /\ OnlyIdle
    /\ page \in [Instances ->
                  { [images |-> m, hasIndexEl |-> h, indexText |-> "",
                     captionText |-> ""] :
                      m \in UNION {Markings(n) : n \in 0..MaxTwoSlides},
                      h \in BOOLEAN }]
    /\ inst = [i \in Instances |-> [currentIndex |-> -1, listeners |-> FALSE]]
    /\ actor = [inst |-> 0, kind |-> "none", from |-> -1]

\* createImageGallery(selector of container i)
ConstructAt(i) ==
    LET c == QueryIn(i)
        imgs == page[c].images
        start == InitialIndex(imgs)
    IN  /\ ~inst[i].listeners
        /\ Len(imgs) # 0
        /\ page' = [page EXCEPT ![c].images = ToggleAll(imgs, start),
                                ![c].captionText = CaptionFor(start)]
        /\ inst' = [inst EXCEPT ![i] = [currentIndex |-> start,
                                        listeners |-> TRUE]]
        /\ actor' = [inst |-> i, kind |-> "construct", from |-> -1]
        /\ UNCHANGED <<galleryVars, formVars, onlyVars>>

\* showImage(newIndex) of instance i: the page after the call
showImageAt(i, newIndex) ==
    LET c == QueryIn(i)
        imgs == page[c].images
        cur == inst[i].currentIndex
    IN  IF newIndex < 0 \/ newIndex >= Len(imgs) \/ newIndex = cur
        THEN UNCHANGED <<page, inst>>
        ELSE /\ inst' = [inst EXCEPT ![i].currentIndex = newIndex]
             /\ IF page[c].hasIndexEl
                THEN page' = [page EXCEPT
                        ![c].images = Swap(imgs, cur, newIndex),
                        ![c].indexText = CounterFor(newIndex, Len(imgs)),
                        ![c].captionText = CaptionFor(newIndex)]
                ELSE page' = [page EXCEPT
                        ![c].images = Swap(imgs, cur, newIndex)]

\* click on an arrow of instance i
ClickAt(i, kind) ==
    LET cur == inst[i].currentIndex
        n == Len(page[QueryIn(i)].images)
        c == IF kind = "prev" THEN prevCall(cur, n) ELSE nextCall(cur, n)
    IN  /\ inst[i].listeners
        /\ actor' = [inst |-> i, kind |-> kind, from |-> cur]
        /\ IF c = <<>> THEN UNCHANGED <<page, inst>> ELSE showImageAt(i, c[1])
        /\ UNCHANGED <<galleryVars, formVars, onlyVars>>

ConstructTwo == \E i \in Instances : ConstructAt(i)

ClickTwo == \E i \in Instances, kind \in {"prev", "next"} : ClickAt(i, kind)

NextTwo == ConstructTwo \/ ClickTwo

SpecTwo == InitTwo /\ [][NextTwo]_vars

\* ---------------------------------------------------------- enquiry form
Slots == {"morning", "afternoon", "evening"}
Boxes == Slots \cup {"none"}

SetMin(S) == CHOOSE x \in S : \A y \in S : x <= y
SetMax(S) == CHOOSE x \in S : \A y \in S : x >= y

\* String.prototype.trim on a value of letters and spaces
Trim_Identity(s) == s
Trim(s) ==
    LET kept == {i \in 1..Len(s) : s[i] # " "}
    IN  IF kept = {} THEN <<>> ELSE SubSeq(s, SetMin(kept), SetMax(kept))

\* value.includes(" ")
IncludesSpace(s) == \E i \in 1..Len(s) : s[i] = " "

\* value.replace(/\D+/g, "")
IsDigit(ch) == ch = "d"
DigitsOf(s) == SelectSeq(s, IsDigit)

\* isPhoneComplete(form)
isPhoneComplete_AnyDigits ==
    IF ~telInput THEN TRUE ELSE Len(DigitsOf(telValue)) > 0
isPhoneComplete ==
    IF ~telInput THEN TRUE ELSE Len(DigitsOf(telValue)) = PhoneDigits

\* hasTimeSlotSelection()
hasTimeSlotSelection_SlotsOnly == \E s \in Slots : checked[s]
hasTimeSlotSelection == (\E s \in Slots : checked[s]) \/ checked.none

\* form.reportValidity(): no field carries a custom validity message and the
\* constraints the markup puts on the fields (required, type, ...) hold.
reportValidity(nativeOk) ==
    nativeOk /\ ~customValidity.name /\ ~customValidity.tel

\* phoneInput "input" handler: the value it leaves in the field
FormatPhone(value) ==
    LET all == DigitsOf(value)
        digits == IF Len(all) > PhoneDigits THEN SubSeq(all, 1, PhoneDigits) ELSE all
    IN  IF Len(digits) > PhoneSplit
        THEN SubSeq(digits, 1, PhoneSplit) \o <<" ">>
                \o SubSeq(digits, PhoneSplit + 1, Len(digits))
        ELSE digits

\* phoneInput "input" handler: whether it leaves a custom validity message
PhoneIncomplete(value) ==
    Len(DigitsOf(FormatPhone(value))) \in 1..(PhoneDigits - 1)

\* The checkedness the markup may give the boxes: nothing preselected, or
\* "No Preference" preselected.
DefaultMarkups == {NoneChecked, [NoneChecked EXCEPT !.none = TRUE]}

\* The page as loaded, with an enquiry form and no gallery.
InitForm ==
    /\ GalleryIdle
    /\ TwoIdle
    /\ OnlyIdle
    /\ telInput \in BOOLEAN
    /\ telValue = <<>>
    /\ fullName = <<>>
    /\ customValidity = [name |-> FALSE, tel |-> FALSE]
    /\ defaults \in DefaultMarkups
    /\ checked = defaults
    /\ noneInGroup \in BOOLEAN
    /\ submitBtn \in
          {[present |-> FALSE, innerText |-> "", disabled |-> FALSE]} \cup
          {[present |-> TRUE, innerText |-> l, disabled |-> FALSE] :
              l \in SubmitLabels}
    /\ statusText = ""
    /\ pending = <<>>
    /\ nameTyped = FALSE
    /\ fev = NoEvent

\* The user types one character at the end of #tel; the "input" handler runs.
TypeTel ==
    /\ telInput
    /\ \E ch \in {"d", "x"} :
          /\ telValue' = FormatPhone(Append(telValue, ch))
          /\ customValidity' =
                [customValidity EXCEPT !.tel = PhoneIncomplete(Append(telValue, ch))]
          /\ fev' = [kind |-> "tel", ch |-> ch]
    /\ UNCHANGED <<telInput, fullName, checked, noneInGroup, defaults,
                   submitBtn, statusText, pending, nameTyped>>
    /\ UNCHANGED <<galleryVars, twoVars, onlyVars>>

\* The user types one character at the end of #full-name; the "input" handler runs.
TypeName ==
    /\ Len(fullName) < MaxNameLen
    /\ \E ch \in {"a", " "} :
          /\ fullName' = Append(fullName, ch)
          /\ customValidity' =
                [customValidity EXCEPT !.name = ~IncludesSpace(Append(fullName, ch))]
          /\ fev' = [kind |-> "name", ch |-> ch]
    /\ nameTyped' = TRUE
    /\ UNCHANGED <<telInput, telValue, checked, noneInGroup, defaults,
                   submitBtn, statusText, pending>>
    /\ UNCHANGED <<galleryVars, twoVars, onlyVars>>

\* timeSlotCheckboxes "change" handler, with `this` the box `id`
timeSlotChange_NoSwitch(chk, id) ==
    IF chk[id] /\ id # "none" THEN [chk EXCEPT !.none = FALSE] ELSE chk
timeSlotChange_KeepsNone(chk, id) ==
    IF \A s \in Slots : chk[s] THEN [NoneChecked EXCEPT !.none = TRUE] ELSE chk
timeSlotChange(chk, id) ==
    LET c1 == IF chk[id] /\ id # "none" THEN [chk EXCEPT !.none = FALSE] ELSE chk
    IN  IF \A s \in Slots : c1[s]
        THEN [NoneChecked EXCEPT !.none = TRUE]
        ELSE c1

\* noneCheckbox "change" handler
noneChange(chk) ==
    IF chk.none THEN [NoneChecked EXCEPT !.none = TRUE] ELSE chk

\* The user toggles one box; the change handlers registered on it run in the
\* order they were added (the time-slot group's first, then #none's own).
Toggle ==
    /\ \E id \in Boxes :
          LET c0 == [checked EXCEPT ![id] = ~checked[id]]
              c1 == IF id # "none" \/ noneInGroup THEN timeSlotChange(c0, id) ELSE c0
              c2 == IF id = "none" THEN noneChange(c1) ELSE c1
          IN  /\ checked' = c2
              /\ fev' = [kind |-> "toggle", id |-> id, before |-> checked]
    /\ UNCHANGED <<telInput, telValue, fullName, customValidity, noneInGroup,
                   defaults, submitBtn, statusText, pending, nameTyped>>
    /\ UNCHANGED <<galleryVars, twoVars, onlyVars>>

\* const originalText = submitBtn?.innerText || "Send"
OriginalText(btn) ==
    IF btn.present /\ btn.innerText # "" THEN btn.innerText ELSE "Send"

\* if (submitBtn) { submitBtn.innerText = "Sending..."; submitBtn.disabled = true; }
LoadingBtn_NotDisabled(btn) ==
    IF btn.present THEN [btn EXCEPT !.innerText = "Sending..."] ELSE btn
LoadingBtn(btn) ==
    IF btn.present
    THEN [btn EXCEPT !.innerText = "Sending...", !.disabled = TRUE]
    ELSE btn

\* .finally: if (submitBtn) { innerText = originalText; disabled = false; }
RestoreBtn_LabelOnly(btn, originalText) ==
    IF btn.present THEN [btn EXCEPT !.innerText = originalText] ELSE btn
RestoreBtn(btn, originalText) ==
    IF btn.present
    THEN [btn EXCEPT !.innerText = originalText, !.disabled = FALSE]
    ELSE btn

\* .then: if (!response.ok) throw ...: the callback completes only for an ok
\* response; a rejected fetch never reaches it.
Fulfils_NoOkCheck(outcome) == outcome \in {"ok", "notok"}
Fulfils(outcome) == outcome = "ok"

Outcomes == {"ok", "notok", "rejected"}

\* A submit event on the form.  A disabled submit button cannot be activated
\* and blocks implicit submission, so the event needs the button enabled.
\* nativeOk: the constraints the markup puts on the fields hold.
Submit ==
    /\ ~submitBtn.disabled
    /\ Len(pending) <= MaxPending
    /\ \E nativeOk \in BOOLEAN :
          LET sent == /\ isPhoneComplete
                      /\ hasTimeSlotSelection
                      /\ reportValidity(nativeOk)
          IN  /\ fullName' = Trim(fullName)
              /\ statusText' =
                    IF ~isPhoneComplete THEN PhoneMsg
                    ELSE IF ~hasTimeSlotSelection THEN SlotMsg
                    ELSE ""
              /\ submitBtn' = IF sent THEN LoadingBtn(submitBtn) ELSE submitBtn
              /\ pending' =
                    IF sent
                    THEN Append(pending,
                                [originalText |-> OriginalText(submitBtn),
                                 labelBefore |-> submitBtn.innerText])
                    ELSE pending
              /\ fev' = [kind |-> "submit", sent |-> sent, nativeOk |-> nativeOk]
    /\ UNCHANGED <<telInput, telValue, customValidity, checked, noneInGroup,
                   defaults, nameTyped>>
    /\ UNCHANGED <<galleryVars, twoVars, onlyVars>>

\* The fetch of a request in flight settles; then/catch/finally run.
Settle ==
    /\ \E k \in 1..Len(pending), outcome \in Outcomes :
          /\ statusText' = IF Fulfils(outcome) THEN SuccessMsg ELSE ErrorMsg
          /\ IF Fulfils(outcome)
             THEN /\ fullName' = <<>>
                  /\ telValue' = <<>>
                  /\ checked' = defaults
             ELSE UNCHANGED <<fullName, telValue, checked>>
          /\ submitBtn' = RestoreBtn(submitBtn, pending[k].originalText)
          /\ pending' = [i \in 1..(Len(pending) - 1) |->
                            IF i < k THEN pending[i] ELSE pending[i + 1]]
          /\ fev' = [kind |-> "settle", outcome |-> outcome,
                     labelBefore |-> pending[k].labelBefore]
    /\ UNCHANGED <<telInput, customValidity, noneInGroup, defaults, nameTyped>>
    /\ UNCHANGED <<galleryVars, twoVars, onlyVars>>

NextForm == TypeTel \/ TypeName \/ Submit \/ Settle

SpecForm == InitForm /\ [][NextForm]_vars

\* The time-slot boxes alone: a form with every field, whose boxes the user
\* toggles in any order.
InitSlots ==
    /\ InitForm
    /\ telInput
    /\ submitBtn.present /\ submitBtn.innerText # ""

NextSlots == Toggle

SpecSlots == InitSlots /\ [][NextSlots]_vars

\* ------------------------------------------------- the ".only-one" group
\* The largest ".only-one" group explored.
MaxOnly == 4

\* The change handler of one ".only-one" box, run with this = box number `this`
\* after the browser has flipped it: if it is now checked, every other box of
\* the group is unchecked; if it is now unchecked, nothing is done.
onlyOneChange_KeepsOthers(boxes, this) == boxes
onlyOneChange(boxes, this) ==
    IF boxes[this]
    THEN [cb \in 1..Len(boxes) |-> IF cb # this THEN FALSE ELSE boxes[cb]]
    ELSE boxes

\* A page whose markup holds one to MaxOnly ".only-one" boxes, any of them
\* checked, and no gallery and no enquiry form.
InitOnly ==
    /\ GalleryIdle
    /\ TwoIdle
    /\ FormIdle
    /\ \E n \in 1..MaxOnly : onlyMarkup \in [1..n -> BOOLEAN]
    /\ onlyOne = onlyMarkup
    /\ oev = [kind |-> "none", index |-> 0, before |-> <<>>]

\* The user toggles one box of the group: the browser flips it and dispatches
\* change, whose handler runs to completion.  Boxes the handler unchecks get
\* no change event of their own.
ToggleOnly ==
    /\ \E this \in 1..Len(onlyOne) :
          LET flipped == [onlyOne EXCEPT ![this] = ~onlyOne[this]]
          IN  /\ onlyOne' = onlyOneChange(flipped, this)
              /\ oev' = [kind |-> "toggle", index |-> this, before |-> onlyOne]
    /\ UNCHANGED onlyMarkup
    /\ UNCHANGED <<galleryVars, twoVars, formVars>>

NextOnly == ToggleOnly

SpecOnly == InitOnly /\ [][NextOnly]_vars

\* ------------------------------------------------------------------ types
TypeOK ==
    /\ container \in BOOLEAN /\ prevBtn \in BOOLEAN /\ nextBtn \in BOOLEAN
    /\ galleryIndexEl \in BOOLEAN /\ galleryCaption \in BOOLEAN
    /\ listeners \in BOOLEAN
    /\ images \in [1..Len(images) -> BOOLEAN]
    /\ currentIndex \in -1..Len(images)
    /\ error \in {"none", "TypeError"}
    /\ phase \in {"loaded", "ready", "inert"}
    /\ op \in {"load", "construct", "prev", "next", "showImage"}

\* Slide i (0-based) is the only slide without hidden-img.
OnlyVisible(imgs, i) ==
    /\ i + 1 \in 1..Len(imgs)
    /\ \A j \in 1..Len(imgs) : imgs[j] = ((j - 1) # i)

\* The text "<i+1> / <n>" a counter region is expected to hold for cursor i.
ExpectedCounter(i, n) == ToString(i + 1) \o " / " \o ToString(n)

\* The last operation was a previous/next activation that moved the cursor.
Moved == phase = "ready" /\ op \in {"prev", "next"} /\ currentIndex # lastIndex

\* ----------------------------------------------------------------- claims

\* C1: after a successful construction and after any sequence of previous/next
\* activations the cursor is in [0, N-1], the slide at the cursor is not
\* hidden and every other slide is hidden.
C1_ExactlyOneVisible ==
    phase = "ready" =>
        /\ currentIndex \in 0..(Len(images) - 1)
        /\ OnlyVisible(images, currentIndex)

\* A navigation moved the cursor in a gallery whose markup hid no slide.
C1_Witness ==
    /\ Moved
    /\ Len(images) >= 3
    /\ \A i \in 1..Len(images) : ~markup.images[i]

\* C2: navigation never wraps: previous at cursor 0 and next at cursor N-1
\* leave the cursor where it is; otherwise previous moves it by exactly -1 and
\* next by exactly +1.
C2_NoWrap ==
    [][ /\ (phase = "ready" /\ op' = "prev") =>
              currentIndex' = (IF currentIndex = 0 THEN 0 ELSE currentIndex - 1)
        /\ (phase = "ready" /\ op' = "next") =>
              currentIndex' = (IF currentIndex = Len(images) - 1
                               THEN Len(images) - 1
                               ELSE currentIndex + 1)
      ]_vars

\* The previous control was activated at cursor 0 of a gallery of several slides.
C2_Witness ==
    /\ phase = "ready" /\ op = "prev"
    /\ Len(images) > 1
    /\ lastIndex = 0 /\ currentIndex = 0

\* C3: for every targetIndex in [0, N-1] other than the cursor, after
\* showImage(targetIndex) the cursor is targetIndex, the slide at targetIndex
\* is the only visible one and the slide visible before is hidden.
C3_ShowImageMoves ==
    [][ ( /\ phase = "ready" /\ op' = "showImage"
          /\ call'[1] \in 0..(Len(images) - 1)
          /\ call'[1] # currentIndex )
        => /\ currentIndex' = call'[1]
           /\ OnlyVisible(images', call'[1])
           /\ images'[currentIndex + 1] = TRUE
      ]_vars

\* showImage was called with a valid index other than the cursor, not adjacent to it.
C3_Witness ==
    /\ phase = "ready" /\ op = "showImage"
    /\ call = <<currentIndex>>
    /\ lastIndex >= 0
    /\ currentIndex - lastIndex >= 2

\* C4: for every targetIndex below 0, at or above N, or equal to the cursor,
\* showImage(targetIndex) leaves the cursor, every slide's hidden marker, the
\* counter text and the caption text unchanged.
C4_RejectedLeavesAll ==
    [][ ( /\ phase = "ready" /\ op' = "showImage"
          /\ \/ call'[1] < 0
             \/ call'[1] >= Len(images)
             \/ call'[1] = currentIndex )
        => UNCHANGED <<currentIndex, images, indexText, captionText>>
      ]_vars

\* showImage was called with the index N, one past the last slide.
C4_Witness ==
    /\ phase = "ready" /\ op = "showImage"
    /\ call = <<Len(images)>>
    /\ lastIndex = currentIndex

\* C5: after every transition that changes the cursor, the counter region
\* (when present) holds exactly "<cursor+1> / <N>" for the new cursor.
C5_CounterFollowsCursor ==
    [][ (phase = "ready" /\ galleryIndexEl /\ currentIndex' # currentIndex)
        => indexText' = ExpectedCounter(currentIndex', Len(images))
      ]_vars

\* The next control moved the cursor of a 7-slide gallery to index 2: "3 / 7".
C5_Witness ==
    /\ Moved /\ op = "next"
    /\ galleryIndexEl
    /\ Len(images) = 7 /\ currentIndex = 2
    /\ indexText = "3 / 7"

\* C6: immediately after construction, before any navigation, the counter
\* region reads "<cursor+1> / <N>" for the initial cursor, whatever text the
\* markup held.
C6_CounterAfterConstruction ==
    (phase = "ready" /\ op = "construct" /\ galleryIndexEl)
        => indexText = ExpectedCounter(currentIndex, Len(images))

\* C7: when a caption region exists, after construction and after any sequence
\* of previous/next activations the caption is "Meet <name>" for the
\* caption-table entry at the cursor.
C7_CaptionFollowsCursor ==
    (phase = "ready" /\ galleryCaption /\ currentIndex < Len(catNames))
        => captionText = "Meet " \o catNames[currentIndex + 1]

C9_OptionalRegionsTolerated ==
    Moved =>
        /\ error = "none"
        /\ OnlyVisible(images, currentIndex)
        /\ galleryIndexEl => indexText = ExpectedCounter(currentIndex, Len(images))
        /\ galleryCaption =>
              captionText = "Meet " \o (IF currentIndex < Len(catNames)
                                        THEN catNames[currentIndex + 1] ELSE "")

\* C10: construction against a missing container, an empty slide list, or a
\* container lacking the previous or the next control changes no hidden
\* marker, writes no counter or caption text, binds no handler, raises nothing.
C10_DeclinedChangesNothing ==
    ( /\ phase # "loaded"
      /\ \/ ~container
         \/ Len(markup.images) = 0
         \/ ~prevBtn
         \/ ~nextBtn )
    => /\ images = markup.images
       /\ indexText = markup.indexText
       /\ captionText = markup.captionText
       /\ ~listeners
       /\ currentIndex = -1
       /\ error = "none"

\* Construction ran on a container with slides, none hidden, a caption region
\* and a previous control, but no next control.
C10_Witness ==
    /\ op = "construct" /\ phase = "inert"
    /\ container /\ prevBtn /\ ~nextBtn /\ galleryCaption
    /\ Len(images) >= 2
    /\ \A i \in 1..Len(images) : ~images[i]

\* The last operation was a construction that went through.
Constructed == phase = "ready" /\ op = "construct"

\* C11: on successful construction the initial cursor is the smallest index
\* whose slide the markup does not mark hidden, and 0 when every slide is
\* marked hidden.
C11_InitialCursor ==
    Constructed =>
        IF \A i \in 1..Len(markup.images) : markup.images[i]
        THEN currentIndex = 0
        ELSE /\ currentIndex + 1 \in 1..Len(markup.images)
             /\ ~markup.images[currentIndex + 1]
             /\ \A j \in 1..currentIndex : markup.images[j]

\* Construction on a markup whose first two slides are hidden and whose third
\* and fourth are not: the cursor starts at 2.
C11_Witness ==
    /\ Constructed
    /\ Len(markup.images) >= 4
    /\ markup.images[1] /\ markup.images[2]
    /\ ~markup.images[3] /\ ~markup.images[4]
    /\ currentIndex = 2

\* C12: initial normalization is idempotent: the cursor derived again from the
\* markup that construction produced is the cursor derived from the original
\* markup, and normalizing again changes no slide's hidden marker.
C12_NormalizationIdempotent ==
    Constructed =>
        /\ InitialIndex(images) = currentIndex
        /\ InitialIndex(images) = InitialIndex(markup.images)
        /\ ToggleAll(images, InitialIndex(images)) = images

\* Construction changed the markers of a markup that was not yet normal.
C12_Witness ==
    /\ Constructed
    /\ images # markup.images
    /\ currentIndex > 0

\* C13: two instances constructed on two different containers do not interact:
\* an activation of a control of one leaves the other's cursor, slide
\* visibility, counter text and caption text unchanged.
C13_InstancesIndependent ==
    [][ \A i \in Instances :
          (actor'.inst = i /\ actor'.kind \in {"prev", "next"})
          => \A j \in Instances \ {i} :
                /\ inst'[j] = inst[j]
                /\ page'[j] = page[j]
      ]_vars

\* Both instances are constructed and the next control of instance 2 moved its
\* cursor from 0 to 1 while instance 1 stands at 0.
C13_Witness ==
    /\ actor = [inst |-> 2, kind |-> "next", from |-> 0]
    /\ inst[2].currentIndex = 1
    /\ inst[1].listeners /\ inst[1].currentIndex = 0
    /\ page[2].indexText = "2 / 2"
    /\ page[1].captionText = "Meet Oliver"

\* ------------------------------------------------------ enquiry form claims
\* The number of digit characters in a field value.
DigitCount(s) == Cardinality({i \in 1..Len(s) : s[i] = "d"})

\* Some box of the time-slot question is checked.
AnyBoxChecked(chk) ==
    chk.morning \/ chk.afternoon \/ chk.evening \/ chk.none

\* C14: on a submit event no request is sent, and the submit button keeps its
\* state, unless the phone field (when present) holds exactly 11 digits, a
\* time slot or "No Preference" is checked and the browser validity check
\* succeeds; a failed phone check shows the phone message even if the
\* time-slot check would fail too.
C14_SubmitGuards ==
    [][ fev'.kind = "submit" =>
          LET phoneOk == ~telInput \/ DigitCount(telValue) = 11
              slotOk == AnyBoxChecked(checked)
              validOk == /\ fev'.nativeOk
                         /\ ~customValidity.name
                         /\ ~customValidity.tel
              issued == Len(pending') = Len(pending) + 1
          IN  /\ issued <=> (phoneOk /\ slotOk /\ validOk)
              /\ ~issued => (pending' = pending /\ submitBtn' = submitBtn)
              /\ ~phoneOk => statusText' = PhoneMsg
              /\ (phoneOk /\ ~slotOk) => statusText' = SlotMsg
      ]_vars

\* A submit with 10 digits in the phone field and no box checked: nothing is
\* sent and the phone message shows.
C14_Witness ==
    /\ fev.kind = "submit" /\ ~fev.sent
    /\ telInput /\ DigitCount(telValue) = 10
    /\ ~AnyBoxChecked(checked)
    /\ statusText = PhoneMsg
    /\ submitBtn.present /\ ~submitBtn.disabled

\* C15: while a request issued by the submit handler is in flight, the form's
\* submit button is disabled and labelled "Sending...", so at most one request
\* per form is in flight.
C15_InFlightDisables ==
    (Len(pending) > 0 /\ submitBtn.present) =>
        /\ submitBtn.disabled
        /\ submitBtn.innerText = "Sending..."
        /\ Len(pending) = 1

\* The user types into a field while a request is in flight.
C15_Witness ==
    /\ Len(pending) = 1 /\ submitBtn.present
    /\ fev.kind = "name"

C17_ResetOnlyOnOk ==
    [][ /\ fev'.kind = "settle" =>
              IF fev'.outcome = "ok"
              THEN /\ statusText' = SuccessMsg
                   /\ fullName' = <<>> /\ telValue' = <<>>
                   /\ checked' = defaults
              ELSE /\ statusText' = ErrorMsg
                   /\ UNCHANGED <<fullName, telValue, checked>>
        /\ (statusText' = SuccessMsg /\ statusText # SuccessMsg) =>
              (fev'.kind = "settle" /\ fev'.outcome = "ok")
      ]_vars

\* A response that was not ok settled: the error shows and the values stay.
C17_Witness ==
    /\ fev.kind = "settle" /\ fev.outcome = "notok"
    /\ statusText = ErrorMsg
    /\ Len(fullName) = 2
    /\ DigitCount(telValue) = 11

\* C18: once the user has typed into the full-name field, no request is sent
\* whose full-name value contains no space, also when the typed value's only
\* space is leading or trailing and is trimmed at submit time.  Stated for a
\* submitted name that is not empty, which no "required" attribute would stop.
C18_SubmittedNameHasSpace ==
    (fev.kind = "submit" /\ fev.sent /\ nameTyped /\ fullName # <<>>) =>
        \E i \in 1..Len(fullName) : fullName[i] = " "

\* The last event toggled box id from unchecked to checked.
Checks(id) == fev.kind = "toggle" /\ fev.id = id /\ ~fev.before[id]

\* C19: after the change handlers of any sequence of toggles, "No Preference"
\* and a specific slot are never both checked: checking a slot unchecks a
\* checked "No Preference", checking "No Preference" unchecks all three slots.
C19_NoneExcludesSlots ==
    /\ ~(checked.none /\ \E s \in Slots : checked[s])
    /\ \A s \in Slots :
          (Checks(s) /\ fev.before.none) => (checked[s] /\ ~checked.none)
    /\ Checks("none") => (checked.none /\ \A s \in Slots : ~checked[s])

\* Morning was checked while "No Preference" was.
C19_Witness ==
    /\ Checks("morning") /\ fev.before.none
    /\ checked.morning /\ ~checked.none

\* C20: morning, afternoon and evening are never all checked after the change
\* handlers; the toggle that would check the third leaves all three unchecked
\* and "No Preference" checked.
C20_AllThreeSwitches ==
    /\ ~(\A s \in Slots : checked[s])
    /\ \A s \in Slots :
          (Checks(s) /\ \A t \in Slots \ {s} : fev.before[t])
          => (checked.none /\ \A t \in Slots : ~checked[t])

\* Evening was checked while morning and afternoon were.
C20_Witness ==
    /\ Checks("evening")
    /\ fev.before.morning /\ fev.before.afternoon
    /\ checked.none

\* The boxes of a group that are checked.
CheckedOf(boxes) == {cb \in 1..Len(boxes) : boxes[cb]}

\* C21: in the ".only-one" group, when the markup starts with at most one box
\* checked, at most one box is checked after the change handler of any
\* sequence of user toggles; and a toggle that checks a box leaves that box
\* checked and every other box of the group unchecked.
C21_AtMostOneChecked ==
    /\ Cardinality(CheckedOf(onlyMarkup)) <= 1
            => Cardinality(CheckedOf(onlyOne)) <= 1
    /\ (oev.kind = "toggle" /\ ~oev.before[oev.index])
            => CheckedOf(onlyOne) = {oev.index}

\* From markup with one box checked, the user checked another box of a group
\* of three or more, and that box is now the only one checked.
C21_Witness ==
    /\ Len(onlyOne) >= 3
    /\ Cardinality(CheckedOf(onlyMarkup)) = 1
    /\ oev.kind = "toggle"
    /\ ~oev.before[oev.index]
    /\ CheckedOf(oev.before) # {}
    /\ CheckedOf(onlyOne) = {oev.index}
====
